---- MODULE Spec2Model ----
(***************************************************************************)
(* Library Quest: the LibraryManager of library_manager.py as a state      *)
(* machine.  The state is the manager's in-memory library and user_data,   *)
(* the two JSON files it writes through to, and the wall clock it reads.   *)
(*                                                                         *)
(* Python values are modelled as follows: None is the empty tuple, a str   *)
(* that the code manipulates (title, author) is a tuple of characters, an  *)
(* ISO date string "YYYY-MM-DD" is the tuple <<y, m, d>>, a dict is a      *)
(* record.  JSON text is modelled by tagged tuples (JNull, JBool, ...).    *)
(* The field added_date (a timestamp written once by add_book and read by  *)
(* no operation of the manager) is left out of the records.                *)
(***************************************************************************)
EXTENDS Integers, Sequences, FiniteSets, TLC

VARIABLES
    library,      \* self.library: list of book dicts
    user_data,    \* self.user_data: dict
    libFile,      \* content of LIBRARY_FILE on disk
    userFile,     \* content of USER_DATA_FILE on disk
    now,          \* the date datetime.now() returns
    VALID_YEARS,  \* range(1000, year + 1), computed when the module is loaded
    completed,    \* history: per record of library, how often its completion handler ran
    persisted,    \* history: what was on disk before the last operation
    last          \* the last call: operation, arguments, result, files written

vars == <<library, user_data, libFile, userFile, now, VALID_YEARS, completed, persisted, last>>

----------------------------------------------------------------------------
(* Bounds of the model *)

MaxBooks == 2   \* SpecDay: add_book is not called on a library of MaxBooks books
MaxShelf == 1   \* Spec, SpecFault: add_book is not called on a library of MaxShelf books
MaxCount == 2   \* no completion takes a counter of user_data above MaxCount

----------------------------------------------------------------------------
(* Python values *)

None == <<>>

Min(a, b) == IF a <= b THEN a ELSE b
Max(a, b) == IF a >= b THEN a ELSE b

IsSpace(c) == c = " "

RECURSIVE LStrip(_)
LStrip(s) == IF s # <<>> /\ IsSpace(Head(s)) THEN LStrip(Tail(s)) ELSE s

RECURSIVE RStrip(_)
RStrip(s) == IF s # <<>> /\ IsSpace(s[Len(s)]) THEN RStrip(SubSeq(s, 1, Len(s) - 1)) ELSE s

\* str.strip()
Strip(s) == RStrip(LStrip(s))

\* truth value of a str or None
Truthy(s) == s # <<>>

----------------------------------------------------------------------------
(* datetime.date *)

Date(y, m, d) == [year |-> y, month |-> m, day |-> d]

IsLeap(y) == (y % 4 = 0 /\ y % 100 # 0) \/ y % 400 = 0

DaysInMonth(y, m) ==
    IF m = 2 THEN (IF IsLeap(y) THEN 29 ELSE 28)
    ELSE IF m \in {4, 6, 9, 11} THEN 30 ELSE 31

\* date + timedelta(days=1)
PlusOneDay(d) ==
    IF d.day < DaysInMonth(d.year, d.month) THEN Date(d.year, d.month, d.day + 1)
    ELSE IF d.month < 12 THEN Date(d.year, d.month + 1, 1)
    ELSE Date(d.year + 1, 1, 1)

\* date.isoformat(): "YYYY-MM-DD"
IsoFormat(d) == <<d.year, d.month, d.day>>

\* datetime.fromisoformat(s).date()
FromIsoFormat(s) == Date(s[1], s[2], s[3])

----------------------------------------------------------------------------
(* JSON text and the two files *)

JNull == <<"null">>
JBool(b) == <<"bool", IF b THEN "true" ELSE "false">>
JInt(n) == <<"int", n>>
JStr(s) == <<"str", s>>
JOpt(v) == IF v = None THEN JNull ELSE JStr(v)

PyBool(j) == j[2] = "true"
PyInt(j) == j[2]
PyStr(j) == j[2]
PyOpt(j) == IF j = JNull THEN None ELSE j[2]

\* json.dump of one book dict
DumpBook(b) ==
    [id |-> JInt(b.id), title |-> JStr(b.title), author |-> JStr(b.author),
     year |-> JInt(b.year), genre |-> JStr(b.genre), read |-> JBool(b.read),
     rating |-> JOpt(b.rating), notes |-> JStr(b.notes),
     progress |-> JInt(b.progress), cover_image |-> JOpt(b.cover_image)]

\* json.load of one book object
ParseBook(j) ==
    [id |-> PyInt(j.id), title |-> PyStr(j.title), author |-> PyStr(j.author),
     year |-> PyInt(j.year), genre |-> PyStr(j.genre), read |-> PyBool(j.read),
     rating |-> PyOpt(j.rating), notes |-> PyStr(j.notes),
     progress |-> PyInt(j.progress), cover_image |-> PyOpt(j.cover_image)]

\* json.dump of the user_data dict
DumpUser(u) ==
    [reading_streak |-> JInt(u.reading_streak),
     last_reading_date |-> JOpt(u.last_reading_date),
     monthly_goal |-> JInt(u.monthly_goal),
     books_read_this_month |-> JInt(u.books_read_this_month),
     month |-> JInt(u.month)]

\* json.load of the user_data object
ParseUser(j) ==
    [reading_streak |-> PyInt(j.reading_streak),
     last_reading_date |-> PyOpt(j.last_reading_date),
     monthly_goal |-> PyInt(j.monthly_goal),
     books_read_this_month |-> PyInt(j.books_read_this_month),
     month |-> PyInt(j.month)]

\* A file is absent, holds a complete JSON document, or holds a truncated one.
Absent == [status |-> "absent", text |-> <<>>]
Truncated == [status |-> "truncated", text |-> <<>>]
Document(t) == [status |-> "json", text |-> t]

\* open(path, "w") followed by json.dump: the outcome w is "ok", "open_failed"
\* (the file is left as it was) or "dump_failed" (the file was truncated by
\* open and the document was not written completely).
WriteOutcomes == {"ok", "open_failed", "dump_failed"}

WriteFile(file, text, w) ==
    CASE w = "ok" -> Document(text)
      [] w = "open_failed" -> file
      [] w = "dump_failed" -> Truncated

\* dict.setdefault on a loaded book
SetDefault(b, key, value) == IF key \in DOMAIN b THEN b ELSE b @@ (key :> value)

_load_library(file) ==
    IF file.status # "json" THEN <<>>
    ELSE [i \in 1..Len(file.text) |->
            SetDefault(SetDefault(SetDefault(ParseBook(file.text[i]),
                "notes", ""), "progress", 0), "cover_image", None)]

_load_user_data(file, today) ==
    IF file.status # "json"
    THEN [reading_streak |-> 0, last_reading_date |-> None, monthly_goal |-> 0,
          books_read_this_month |-> 0, month |-> today.month]
    ELSE ParseUser(file.text)

_save_library(file, lib, w) == WriteFile(file, [i \in 1..Len(lib) |-> DumpBook(lib[i])], w)

_save_user_data(file, ud, w) == WriteFile(file, DumpUser(ud), w)

----------------------------------------------------------------------------
(* Inputs *)

\* datetime.now().date(): the dates the clock is set to
ClockDates == {Date(2024, 1, 31), Date(2024, 2, 1), Date(2025, 2, 1)}

StartDate == Date(2024, 1, 31)

\* <<title, author, year>> of an add_book call: the first is valid, the others
\* have a blank title, an empty author, a year below and a year above VALID_YEARS
AddInputs ==
    {<<<<" ", "D", " ">>, <<"H">>, 2024>>,
     <<<<" ">>, <<"H">>, 2024>>,
     <<<<" ", "D", " ">>, <<>>, 2024>>,
     <<<<" ", "D", " ">>, <<"H">>, 999>>,
     <<<<" ", "D", " ">>, <<"H">>, 2025>>}
ProgressInputs == {-1, 50, 100, 101}
GoalInputs == {-1, 3}
Ids == 1..(MaxBooks + 1)

\* range(start, stop)
Range(start, stop) == [start |-> start, stop |-> stop]
InRange(y, r) == r.start <= y /\ y < r.stop

\* VALID_YEARS = range(1000, datetime.now().year + 1)
ValidYearsAt(today) == Range(1000, today.year + 1)

----------------------------------------------------------------------------
(* The record of the last call *)

\* op: the method called; ret: what it returned; saved: the files it wrote (or
\* tried to write); handler: how often it ran the completion handler;
\* faulted: whether one of its writes failed.
NoCall == [op |-> "none", ret |-> "None", saved |-> {}, handler |-> 0, faulted |-> FALSE]

PyResult(b) == IF b THEN "True" ELSE "False"

----------------------------------------------------------------------------
(* LibraryManager *)

\* __init__ on a first run: neither file exists
Init ==
    /\ now = StartDate
    /\ VALID_YEARS = ValidYearsAt(StartDate)
    /\ libFile = Absent
    /\ userFile = Absent
    /\ library = _load_library(Absent)
    /\ user_data = _load_user_data(Absent, StartDate)
    /\ completed = <<>>
    /\ persisted = [lib |-> Absent, user |-> Absent]
    /\ last = NoCall

\* AddValid testing title and author as they were typed
AddValidUntrimmed(title, author, year) ==
    Truthy(title) /\ Truthy(author) /\ InRange(year, VALID_YEARS)

\* the validation of add_book
AddValid(title, author, year) ==
    Truthy(Strip(title)) /\ Truthy(Strip(author)) /\ InRange(year, VALID_YEARS)

\* the id add_book gives the new book
NewId(lib) == Len(lib) + 1

add_book(title, author, year, read, w) ==
    LET call == [NoCall EXCEPT !.op = "add_book"]
    IN
    IF ~AddValid(title, author, year)
    THEN /\ last' = [call EXCEPT !.ret = PyResult(FALSE)]
         /\ UNCHANGED <<library, user_data, libFile, userFile, now, VALID_YEARS, completed>>
    ELSE LET book == [id |-> NewId(library), title |-> Strip(title),
                      author |-> Strip(author), year |-> year, genre |-> "Sci-Fi",
                      read |-> read, rating |-> None, notes |-> "",
                      progress |-> 0, cover_image |-> None]
         IN /\ library' = Append(library, book)
            /\ completed' = Append(completed, 0)
            /\ libFile' = _save_library(libFile, library', w)
            /\ last' = [call EXCEPT !.ret = PyResult(TRUE), !.saved = {"library"},
                                    !.faulted = (w # "ok")]
            /\ UNCHANGED <<user_data, userFile, now, VALID_YEARS>>

\* [book for book in self.library if book["id"] != book_id]
Without(lib, book_id) == SelectSeq(lib, LAMBDA book: book.id # book_id)

\* the positions that comprehension keeps
KeptPositions(lib, book_id) ==
    SelectSeq([i \in 1..Len(lib) |-> i], LAMBDA i: lib[i].id # book_id)

remove_book(book_id, w) ==
    LET call == [NoCall EXCEPT !.op = "remove_book"]
        kept == KeptPositions(library, book_id)
    IN
    /\ library' = Without(library, book_id)
    /\ completed' = [k \in 1..Len(kept) |-> completed[kept[k]]]
    /\ IF Len(library') < Len(library)
       THEN /\ libFile' = _save_library(libFile, library', w)
            /\ last' = [call EXCEPT !.ret = PyResult(TRUE), !.saved = {"library"},
                                    !.faulted = (w # "ok")]
       ELSE /\ libFile' = libFile
            /\ last' = [call EXCEPT !.ret = PyResult(FALSE)]
    /\ UNCHANGED <<user_data, userFile, now, VALID_YEARS>>

\* The tracker state threaded through the completion handler: the dict, its
\* file, whether _save_user_data ran and whether a write failed.
Tracker(ud, file, saved, faulted) ==
    [ud |-> ud, file |-> file, saved |-> saved, faulted |-> faulted]

\* NextStreak with the reset after a gap left out
NextStreakNoReset(streak, last_date, today) == streak + 1

\* the streak _update_reading_streak stores, given last_reading_date is set
NextStreak(streak, last_date, today) ==
    IF today = PlusOneDay(last_date) THEN streak + 1 ELSE 1

_update_reading_streak(t, today, w) ==
    LET last_date == t.ud.last_reading_date
        streak == IF Truthy(last_date)
                  THEN NextStreak(t.ud.reading_streak, FromIsoFormat(last_date), today)
                  ELSE 1
        ud == [t.ud EXCEPT !.reading_streak = streak,
                           !.last_reading_date = IsoFormat(today)]
    IN IF Truthy(last_date) /\ today = FromIsoFormat(last_date)
       THEN t
       ELSE Tracker(ud, _save_user_data(t.file, ud, w), TRUE, t.faulted \/ w # "ok")

\* _update_monthly_goal with the call of _save_user_data left out
_update_monthly_goal_unsaved(t, today, w) ==
    LET rolled == IF t.ud.month # today.month
                  THEN [t.ud EXCEPT !.books_read_this_month = 0, !.month = today.month]
                  ELSE t.ud
    IN Tracker([rolled EXCEPT !.books_read_this_month = @ + 1], t.file, t.saved, t.faulted)

\* the month _update_monthly_goal compares with the stored one
CurrentMonth(today) == today.month

_update_monthly_goal(t, today, w) ==
    LET current_month == CurrentMonth(today)
        rolled == IF t.ud.month # current_month
                  THEN [t.ud EXCEPT !.books_read_this_month = 0, !.month = current_month]
                  ELSE t.ud
        ud == [rolled EXCEPT !.books_read_this_month = @ + 1]
    IN Tracker(ud, _save_user_data(t.file, ud, w), TRUE, t.faulted \/ w # "ok")

\* the position of the first book with this id, 0 when there is none
FirstWithId(lib, book_id) ==
    IF \E i \in 1..Len(lib) : lib[i].id = book_id
    THEN CHOOSE i \in 1..Len(lib) :
            /\ lib[i].id = book_id
            /\ \A j \in 1..(i - 1) : lib[j].id # book_id
    ELSE 0

\* Clamp with max(0, ...) left out
ClampAbove(progress) == Min(100, progress)

\* min(100, max(0, progress))
Clamp(progress) == Min(100, Max(0, progress))

\* Completes with the test of book["read"] left out
CompletesUnguarded(book, progress) == progress = 100

\* the condition under which update_progress marks the book read
Completes(book, progress) == progress = 100 /\ ~book.read

update_progress(book_id, progress, w1, w2, w3) ==
    LET call == [NoCall EXCEPT !.op = "update_progress"]
        i == FirstWithId(library, book_id)
    IN
    IF i = 0
    THEN /\ last' = [call EXCEPT !.ret = PyResult(FALSE)]
         /\ UNCHANGED <<library, user_data, libFile, userFile, now, VALID_YEARS, completed>>
    ELSE LET t0 == Tracker(user_data, userFile, FALSE, FALSE)
             t2 == _update_monthly_goal(_update_reading_streak(t0, now, w1), now, w2)
         IN
         IF Completes(library[i], progress)
         THEN /\ library' = [library EXCEPT ![i].progress = Clamp(progress),
                                            ![i].read = TRUE]
              /\ completed' = [completed EXCEPT ![i] = @ + 1]
              /\ user_data' = t2.ud
              /\ userFile' = t2.file
              /\ libFile' = _save_library(libFile, library', w3)
              /\ last' = [call EXCEPT !.ret = PyResult(TRUE), !.handler = 1,
                                      !.saved = {"library", "user_data"},
                                      !.faulted = (t2.faulted \/ w3 # "ok")]
              /\ UNCHANGED <<now, VALID_YEARS>>
         ELSE /\ library' = [library EXCEPT ![i].progress = Clamp(progress)]
              /\ libFile' = _save_library(libFile, library', w3)
              /\ last' = [call EXCEPT !.ret = PyResult(TRUE), !.saved = {"library"},
                                      !.faulted = (w3 # "ok")]
              /\ UNCHANGED <<user_data, userFile, now, VALID_YEARS, completed>>

set_monthly_goal(goal, w) ==
    /\ user_data' = [user_data EXCEPT !.monthly_goal = Max(0, goal)]
    /\ userFile' = _save_user_data(userFile, user_data', w)
    /\ last' = [NoCall EXCEPT !.op = "set_monthly_goal",
                              !.saved = {"user_data"}, !.faulted = (w # "ok")]
    /\ UNCHANGED <<library, libFile, now, VALID_YEARS, completed>>

\* time passes (or the clock is set back) between two calls
Tick(today) ==
    /\ today # now
    /\ now' = today
    /\ last' = [NoCall EXCEPT !.op = "tick"]
    /\ UNCHANGED <<library, user_data, libFile, userFile, VALID_YEARS, completed>>

\* the process ends and is started again: the module is loaded, __init__ runs
Restart ==
    /\ VALID_YEARS' = ValidYearsAt(now)
    /\ library' = _load_library(libFile)
    /\ user_data' = _load_user_data(userFile, now)
    /\ completed' = [i \in 1..Len(library') |-> 0]
    /\ last' = [NoCall EXCEPT !.op = IF last.faulted THEN "recover" ELSE "restart"]
    /\ UNCHANGED <<libFile, userFile, now, persisted>>

----------------------------------------------------------------------------
(* Specifications *)

AddBook(w) ==
    \E input \in AddInputs, read \in BOOLEAN :
        add_book(input[1], input[2], input[3], read, w)

RemoveBook(w) == \E book_id \in Ids : remove_book(book_id, w)

UpdateProgress(w1, w2, w3) ==
    \E book_id \in Ids, progress \in ProgressInputs :
        update_progress(book_id, progress, w1, w2, w3)

SetMonthlyGoal(w) == \E goal \in GoalInputs : set_monthly_goal(goal, w)

ClockTick == \E today \in ClockDates : Tick(today)

\* the bounds: the library holds at most cap books, the counters stay small
Bounded(cap) ==
    /\ Len(library') <= cap
    /\ user_data'.reading_streak <= MaxCount
    /\ user_data'.books_read_this_month <= MaxCount

\* one session within a day: every write succeeds, the date does not change
NextDay ==
    \/ AddBook("ok") /\ Bounded(MaxBooks) /\ UNCHANGED persisted
    \/ RemoveBook("ok") /\ Bounded(MaxBooks) /\ UNCHANGED persisted
    \/ UpdateProgress("ok", "ok", "ok") /\ Bounded(MaxBooks) /\ UNCHANGED persisted
    \/ SetMonthlyGoal("ok") /\ Bounded(MaxBooks) /\ UNCHANGED persisted

SpecDay == Init /\ [][NextDay]_vars

\* every write succeeds, the date changes between calls
Next ==
    \/ AddBook("ok") /\ Bounded(MaxShelf) /\ UNCHANGED persisted
    \/ RemoveBook("ok") /\ Bounded(MaxShelf) /\ UNCHANGED persisted
    \/ UpdateProgress("ok", "ok", "ok") /\ Bounded(MaxShelf) /\ UNCHANGED persisted
    \/ SetMonthlyGoal("ok") /\ Bounded(MaxShelf) /\ UNCHANGED persisted
    \/ ClockTick /\ UNCHANGED persisted

Spec == Init /\ [][Next]_vars

\* One day on which writes may fail.  A call whose write failed is followed by
\* the end of the process and its restart; persisted keeps what was on disk
\* before that call.
NoSnapshot == [lib |-> Absent, user |-> Absent]

Snapshot ==
    persisted' = IF last'.faulted THEN [lib |-> libFile, user |-> userFile] ELSE NoSnapshot

NextFault ==
    \/ /\ ~last.faulted
       /\ \E w \in WriteOutcomes : AddBook(w)
       /\ Bounded(MaxShelf) /\ Snapshot
    \/ /\ ~last.faulted
       /\ \E w \in WriteOutcomes : RemoveBook(w)
       /\ Bounded(MaxShelf) /\ Snapshot
    \/ /\ ~last.faulted
       /\ \E w1, w2, w3 \in WriteOutcomes : UpdateProgress(w1, w2, w3)
       /\ Bounded(MaxShelf) /\ Snapshot
    \/ /\ ~last.faulted
       /\ \E w \in WriteOutcomes : SetMonthlyGoal(w)
       /\ Bounded(MaxShelf) /\ Snapshot
    \/ Restart

SpecFault == Init /\ [][NextFault]_vars

----------------------------------------------------------------------------
(* What the claims are stated with *)

Positions == 1..Len(library)

HasId(book_id) == \E i \in Positions : library[i].id = book_id

\* a str that is empty once its blanks are trimmed
Blank(s) == \A k \in 1..Len(s) : s[k] = " "

\* progress brought into [0, 100]
InPercent(p) == IF p < 0 THEN 0 ELSE IF p > 100 THEN 100 ELSE p

\* the number of the day in the proleptic Gregorian calendar (date.toordinal())
DaysBeforeMonth == <<0, 31, 59, 90, 120, 151, 181, 212, 243, 273, 304, 334>>

Ordinal(d) ==
    LET y == d.year - 1
    IN 365 * y + (y \div 4) - (y \div 100) + (y \div 400)
       + DaysBeforeMonth[d.month]
       + (IF d.month > 2 /\ IsLeap(d.year) THEN 1 ELSE 0)
       + d.day

\* the date a stored last_reading_date stands for
StoredDate(iso) == [year |-> iso[1], month |-> iso[2], day |-> iso[3]]

\* the step is a call of the method op
Called(op) == last'.op = op

\* the step is a call that ran the completion handler
CompletionEvent == Called("update_progress") /\ last'.handler = 1

----------------------------------------------------------------------------
(* C1: every book whose stored progress is 100 is marked read. *)
C1_ProgressHundredIsRead ==
    \A i \in Positions : library[i].progress = 100 => library[i].read

(* C2: no two books of the library have the same id. *)
C2_IdsUnique ==
    \A i, j \in Positions : library[i].id = library[j].id => i = j

(* C3: update_progress(id, 100) on a book that is not read marks it read and   *)
(* runs the completion handler (streak, then monthly goal) once; any other     *)
(* update_progress on a found book runs no handler; no update_progress turns a *)
(* read book unread; over its life a book's handler has run at most once, and  *)
(* only for a book that is read.                                               *)
C3_UpdateStep(book_id, progress) ==
    LET i == FirstWithId(library, book_id)
    IN (i # 0 /\ Called("update_progress")
             /\ update_progress(book_id, progress, "ok", "ok", "ok")) =>
        /\ (progress = 100 /\ ~library[i].read) =>
              /\ library'[i].read
              /\ last'.handler = 1
              /\ completed'[i] = completed[i] + 1
              /\ \A j \in Positions \ {i} : completed'[j] = completed[j]
              /\ user_data'.last_reading_date = <<now.year, now.month, now.day>>
              /\ user_data'.books_read_this_month >= 1
        /\ ~(progress = 100 /\ ~library[i].read) =>
              /\ last'.handler = 0
              /\ completed' = completed
              /\ user_data' = user_data
        /\ \A j \in Positions : library[j].read => library'[j].read

C3_CompletionOnce ==
    /\ [](\A i \in Positions : completed[i] <= 1 /\ (completed[i] = 1 => library[i].read))
    /\ [][\A book_id \in Ids, progress \in ProgressInputs :
            C3_UpdateStep(book_id, progress)]_vars

\* a later update_progress on a book whose handler has run returned without running it
C3_Witness ==
    /\ Len(library) = 1
    /\ completed[1] = 1
    /\ library[1].progress = 50
    /\ last.op = "update_progress" /\ last.ret = "True" /\ last.handler = 0

(* C4: remove_book(id) returns False and leaves the library as it is when no   *)
(* book has the id; otherwise it returns True, the library is one book         *)
(* shorter, no book has the id, and the other books keep their order.          *)
C4_RemoveStep(book_id) ==
    (Called("remove_book") /\ remove_book(book_id, "ok")) =>
        IF HasId(book_id)
        THEN /\ last'.ret = "True"
             /\ Len(library') = Len(library) - 1
             /\ \A i \in 1..Len(library') : library'[i].id # book_id
             /\ \E k \in Positions :
                    library' = SubSeq(library, 1, k - 1) \o SubSeq(library, k + 1, Len(library))
        ELSE /\ last'.ret = "False"
             /\ library' = library

C4_RemoveOne == [][\A book_id \in Ids : C4_RemoveStep(book_id)]_vars

(* C5: a completion event on the date today sets reading_streak to 1 when      *)
(* last_reading_date is None, leaves it when last_reading_date is today, adds  *)
(* 1 when today is the day after last_reading_date, and sets it to 1 for any   *)
(* other gap; afterwards last_reading_date is today.                           *)
C5_StreakStep ==
    CompletionEvent =>
        LET before == user_data.last_reading_date
            streak == user_data.reading_streak
            gap == Ordinal(now) - Ordinal(StoredDate(before))
        IN /\ user_data'.reading_streak =
                IF before = None THEN 1
                ELSE IF gap = 0 THEN streak
                ELSE IF gap = 1 THEN streak + 1
                ELSE 1
           /\ user_data'.last_reading_date = <<now.year, now.month, now.day>>

C5_StreakLaw == [][C5_StreakStep]_vars

\* a completion on the day after the previous one has raised the streak to 2
C5_Witness ==
    /\ last.op = "update_progress" /\ last.handler = 1
    /\ user_data.reading_streak = 2
    /\ user_data.last_reading_date = <<2024, 2, 1>>

(* C6: of two consecutive completion events, the later one adds 1 to           *)
(* books_read_this_month when both fall in the same month of the same year,    *)
(* and sets it to 1 otherwise.                                                 *)
C6_MonthStep ==
    (CompletionEvent /\ user_data.last_reading_date # None) =>
        LET earlier == StoredDate(user_data.last_reading_date)
        IN user_data'.books_read_this_month =
             IF earlier.year = now.year /\ earlier.month = now.month
             THEN user_data.books_read_this_month + 1
             ELSE 1

C6_MonthlyRollover == [][C6_MonthStep]_vars

(* C7: add_book with a blank title, a blank author or a year outside           *)
(* [1000, current year], and remove_book or update_progress with an id no book *)
(* has, return False, write no file and leave library, user_data and both      *)
(* files as they were.                                                         *)
C7_NothingHappened ==
    /\ last'.ret = "False"
    /\ last'.saved = {}
    /\ UNCHANGED <<library, user_data, libFile, userFile>>

C7_ValidationStep ==
    /\ \A input \in AddInputs, read \in BOOLEAN :
          (/\ \/ Blank(input[1])
              \/ Blank(input[2])
              \/ input[3] < 1000
              \/ input[3] > now.year
           /\ Called("add_book")
           /\ add_book(input[1], input[2], input[3], read, "ok"))
          => C7_NothingHappened
    /\ \A book_id \in Ids :
          (~HasId(book_id) /\ Called("remove_book") /\ remove_book(book_id, "ok"))
          => C7_NothingHappened
    /\ \A book_id \in Ids, progress \in ProgressInputs :
          (/\ ~HasId(book_id)
           /\ Called("update_progress")
           /\ update_progress(book_id, progress, "ok", "ok", "ok"))
          => C7_NothingHappened

C7_ValidationNoMutation == [][C7_ValidationStep]_vars

\* a call was refused on a library that holds books and has been saved
C7_Witness ==
    /\ last.op = "add_book" /\ last.ret = "False"
    /\ Len(library) = 2
    /\ libFile.status = "json" /\ userFile.status = "json"

(* C8: update_progress(id, p) on a book that is found stores p brought into    *)
(* [0, 100]; the progress of every book is in [0, 100] in every state.         *)
C8_UpdateStep(book_id, progress) ==
    LET i == FirstWithId(library, book_id)
    IN (i # 0 /\ Called("update_progress")
             /\ update_progress(book_id, progress, "ok", "ok", "ok")) =>
          /\ last'.ret = "True"
          /\ library'[i].progress = InPercent(progress)

C8_Clamping ==
    /\ [](\A i \in Positions : library[i].progress \in 0..100)
    /\ [][\A book_id \in Ids, progress \in ProgressInputs :
            C8_UpdateStep(book_id, progress)]_vars

\* a progress above 100 was stored as 100 (the book is not read), and a
\* progress below 0 as 0 on a book that had progress
C8_Witness ==
    /\ last.op = "update_progress" /\ last.ret = "True"
    /\ Len(library) = 2
    /\ library[1].progress = 100 /\ ~library[1].read
    /\ library[2].progress = 0 /\ completed[2] = 1

(* C9: when no write fails, each store's file holds its in-memory state after  *)
(* every call that changed it: loading the library file gives library, and     *)
(* loading the user file gives user_data; a file that does not exist yet       *)
(* belongs to a store that still has the state it was constructed with.        *)
C9_WriteThrough ==
    /\ IF libFile.status = "json"
       THEN _load_library(libFile) = library
       ELSE libFile = Absent /\ library = <<>>
    /\ IF userFile.status = "json"
       THEN _load_user_data(userFile, now) = user_data
       ELSE userFile = Absent /\ user_data = _load_user_data(Absent, StartDate)
    /\ "library" \in last.saved => libFile.status = "json"
    /\ "user_data" \in last.saved => userFile.status = "json"

\* a completion on a later day has been written to both files
C9_Witness ==
    /\ last.op = "update_progress" /\ last.handler = 1
    /\ user_data.reading_streak = 2
    /\ libFile.status = "json" /\ userFile.status = "json"
    /\ library[1].read

(* C10: when a write of a call fails and the process is then restarted, the    *)
(* state it loads from the two files is the state a restart before that call   *)
(* would have loaded.                                                          *)
C10_FailedCallNeverHappened ==
    last.op = "recover" =>
        /\ library = _load_library(persisted.lib)
        /\ user_data = _load_user_data(persisted.user, now)

====
